---- MODULE Spec2Model ----
(***************************************************************************)
(* ZenIntervals: the session clock and the reminder scheduler of the App   *)
(* component (src/unnamed/part_000), with the intention fetch of           *)
(* src/services/geminiService.ts as an asynchronous capability.            *)
(*                                                                         *)
(* Times are milliseconds.  Date.now() is an input: every call returns a   *)
(* value of the model's choosing (the wall clock is not assumed monotone). *)
(* JavaScript numbers are IEEE doubles; Math.floor of an inexact product   *)
(* is modelled by the set of values the rounding can produce.              *)
(*                                                                         *)
(* Specifications: Spec is the App with a remote service that answers,     *)
(* SpecDown the App with a remote service that always fails, SpecStop the  *)
(* App with handleStop callable in any phase, SpecLive the App with an     *)
(* interval that keeps firing, SpecGen generateReminders alone.  The       *)
(* result of a fetch only ever reaches the displayed strings.  These run   *)
(* on a platform without the Screen Wake Lock API; SpecWake is the App on  *)
(* a platform that has it, SpecGenAny generateReminders with arguments the *)
(* App never passes.                                                       *)
(***************************************************************************)
EXTENDS Integers, Sequences, FiniteSets, Bags, TLC

VARIABLES
    config,          \* useState<SessionConfig>
    status,          \* useState<SessionStatus>
    startTime,       \* useState<number | null>
    elapsedTime,     \* useState(0)
    reminders,       \* useState<ReminderPoint[]>
    intention,       \* useState<string>: the greeting of the IDLE view
    sessionQuote,    \* useState<string>
    loadingIntention, \* useState(false)
    isUpdatingQuote, \* useState(false)
    intervalLive,    \* whether the interval held by timerRef is still scheduled
    fetches,         \* bag of getMindfulIntention() promises not yet resolved
    sessionNo,       \* history: number of handleStart calls so far
    clockRead,       \* history: value of the last Date.now() of the session
    clockHigh,       \* history: highest Date.now() of the session so far
    fired,           \* history: chimes and reminder fetches of the session so far
    emitted,         \* history: side effects of the handler that ran last
    call,            \* arguments of generateReminders when it is explored alone
    wakeLock         \* wakeLockRef, the page and the platform's screen wake locks

vars == <<config, status, startTime, elapsedTime, reminders, intention,
          sessionQuote, loadingIntention, isUpdatingQuote, intervalLive, fetches,
          sessionNo, clockRead, clockHigh, fired, emitted, call, wakeLock>>

(***************************************************************************)
(* Bounds of the model.                                                    *)
(***************************************************************************)
MaxSessions == 2          \* handleStart calls explored
MaxDurationMinutes == 1   \* largest duration a configuration input selects
MaxReminderCount == 2     \* largest reminder count a configuration input selects
MaxInFlight == 3          \* unresolved intention fetches at any time
MaxGenDuration == 12      \* durationMs arguments of the scheduler explored alone
MaxGenCount == 4          \* count arguments of the scheduler explored alone
MaxWakePending == 2       \* unresolved wake lock requests at any time

(***************************************************************************)
(* Types (src/types.ts).                                                   *)
(***************************************************************************)
IDLE == "IDLE"
RUNNING == "RUNNING"
FINISHED == "FINISHED"
SessionStatus == {IDLE, RUNNING, FINISHED}

Null == -1

ReminderPoint(t, trig) == [timeMs |-> t, triggered |-> trig]

InitialConfig == [durationMinutes |-> 30, reminderCount |-> 5, isRandom |-> TRUE]

PRESET_DURATIONS == {3, 10, 20, 30, 60, 90, 120}

PRESET_COUNTS == {3, 5, 8}

PollIntervalMs == 100

\* a displayed string, by where it comes from: "" (cleared), the literal set by
\* handleStart, or the result of a fetch; from = the session whose handler
\* wrote the literal or issued the fetch (0: none)
Quote(text, from) == [text |-> text, from |-> from]
EmptyQuote == Quote("", 0)

\* an unresolved getMindfulIntention() promise and the handler that awaits it
Fetch(kind, session) == [kind |-> kind, session |-> session]

\* what getMindfulIntention() resolves to: the cleaned text of the remote
\* service, or a member of the fallback list (it never rejects)
FetchOutcomes == {"remote", "fallback"}

\* mutant of FailedOutcomes: the catch returns an empty text
FailedOutcomesEmptyText == {""}

\* the outcomes when the remote service answers every request, and when
\* every request fails
ServedOutcomes == {"remote"}
FailedOutcomes == {"fallback"}

\* the fetches in flight that a session handler issued
SessionFetches(bag) == BagCardinality(bag) - CopiesIn(Fetch("greeting", 0), bag)

NothingFired == [gentle |-> 0, fetch |-> 0, finished |-> 0]

NoCall == [durationMs |-> 0, count |-> 0, isRandom |-> FALSE, points |-> <<>>,
           returned |-> FALSE]

TotalDuration(cfg) == cfg.durationMinutes * 60 * 1000

(***************************************************************************)
(* Arithmetic helpers.                                                     *)
(***************************************************************************)
RECURSIVE Gcd(_, _)
Gcd(a, b) == IF b = 0 THEN a ELSE Gcd(b, a % b)

RECURSIVE IsPowerOfTwo(_)
IsPowerOfTwo(n) == IF n = 1 THEN TRUE
                   ELSE IF n % 2 = 1 THEN FALSE ELSE IsPowerOfTwo(n \div 2)

\* a / b is a double without rounding error (a, b small positive integers)
ExactQuotient(a, b) == IsPowerOfTwo(b \div Gcd(a, b))

(***************************************************************************)
(* generateReminders.                                                      *)
(***************************************************************************)
\* mutant of EvenOutcomes: the session divided into count intervals
EvenOutcomesNoTail(durationMs, count, i) == {(i * durationMs) \div count}

\* Math.floor(i * interval), interval = durationMs / (count + 1) as a double:
\* the exact floor, or one less when the exact product is an integer that
\* the rounded interval can miss from below.
EvenOutcomes(durationMs, count, i) ==
    LET q == (i * durationMs) \div (count + 1)
    IN  IF (i * durationMs) % (count + 1) = 0
           /\ ~ExactQuotient(durationMs, count + 1)
        THEN {q - 1, q}
        ELSE {q}

\* mutant of RandomLow: no margin at the start of the bucket
RandomLowNoMargin(durationMs, count, i) == (i * durationMs) \div count

\* Math.floor(min + Math.random() * (max - min)) for bucket i (0-based):
\* min = i*chunk + chunk*0.1, max = (i+1)*chunk - chunk*0.1, chunk =
\* durationMs / count.  Exactly: every integer from floor(min) to
\* ceil(max) - 1; when chunk is not exact, rounding can add the integer below
\* an integral min and an integral max itself.
\* With durationMs = 0 every term is 0.  With durationMs < 0 the chunk is
\* negative and max lies below min: every integer from floor(max) to
\* floor(min), and the integer below an integral max when chunk is not exact.
RandomLow(durationMs, count, i) ==
    LET minNum == (10 * i + 1) * durationMs
        maxNum == (10 * i + 9) * durationMs
        den    == 10 * count
        lo     == minNum \div den
        loNeg  == maxNum \div den
    IN  IF durationMs > 0
        THEN IF minNum % den = 0 /\ lo >= 1 /\ ~ExactQuotient(durationMs, count)
             THEN lo - 1 ELSE lo
        ELSE IF durationMs = 0 THEN 0
        ELSE IF maxNum % den = 0 /\ ~ExactQuotient(durationMs, count)
             THEN loNeg - 1 ELSE loNeg

RandomHigh(durationMs, count, i) ==
    LET minNum == (10 * i + 1) * durationMs
        maxNum == (10 * i + 9) * durationMs
        den    == 10 * count
        hi     == (maxNum - 1) \div den
    IN  IF durationMs > 0
        THEN IF maxNum % den = 0 /\ ~ExactQuotient(durationMs, count)
             THEN hi + 1 ELSE hi
        ELSE IF durationMs = 0 THEN 0
        ELSE minNum \div den

\* the draws of Math.random() a specification explores, by their outcome:
\* all of them, the lowest or the highest
Draws(explored, lo, hi) ==
    CASE explored = "all"  -> lo .. hi
      [] explored = "low"  -> {lo}
      [] explored = "high" -> {hi}

\* Array.prototype.sort((a, b) => a.timeMs - b.timeMs): stable
RECURSIVE InsertSorted(_, _)
InsertSorted(s, r) ==
    IF s = <<>> THEN <<r>>
    ELSE IF s[Len(s)].timeMs <= r.timeMs THEN Append(s, r)
    ELSE Append(InsertSorted(SubSeq(s, 1, Len(s) - 1), r), s[Len(s)])

RECURSIVE SortByTime(_)
SortByTime(s) ==
    IF s = <<>> THEN <<>>
    ELSE InsertSorted(SortByTime(SubSeq(s, 1, Len(s) - 1)), s[Len(s)])

\* the points pushed by the loops, before the sort: all possible results
\* (with count < 1 neither loop runs)
RECURSIVE PushedPoints(_, _, _, _, _)
PushedPoints(durationMs, count, isRandom, explored, n) ==
    IF n <= 0 THEN {<<>>}
    ELSE LET outcomes == IF isRandom
                         THEN Draws(explored,
                                    RandomLow(durationMs, count, n - 1),
                                    RandomHigh(durationMs, count, n - 1))
                         ELSE EvenOutcomes(durationMs, count, n)
         IN  {Append(s, ReminderPoint(t, FALSE)) :
                 s \in PushedPoints(durationMs, count, isRandom, explored, n - 1),
                 t \in outcomes}

GenerateReminders(durationMs, count, isRandom, explored) ==
    {SortByTime(s) : s \in PushedPoints(durationMs, count, isRandom, explored, count)}

(***************************************************************************)
(* The greeting effect: after the first render and after every render that *)
(* changed status, when the status is IDLE, it sets loadingIntention and   *)
(* issues one fetch.  prev is the status of the previous render            *)
(* (NotRendered: none).                                                    *)
(***************************************************************************)
NotRendered == "NOT_RENDERED"

GreetingEffect(prev, st) == prev # st /\ st = IDLE

GreetingFetches(bag, prev, st) ==
    IF GreetingEffect(prev, st) THEN bag (+) SetToBag({Fetch("greeting", 0)}) ELSE bag

(***************************************************************************)
(* Keep-awake.  wakeLock.current is what wakeLockRef.current refers to:    *)
(* nothing ("null"), a sentinel whose lock is held ("held") or a sentinel  *)
(* whose lock the platform has released ("released").  pending counts the  *)
(* navigator.wakeLock.request() promises not yet settled, orphaned the     *)
(* locks still held whose sentinel wakeLockRef no longer refers to.        *)
(* supported is 'wakeLock' in navigator, visible is                        *)
(* document.visibilityState === 'visible'.                                 *)
(***************************************************************************)
WakeLockOf(supported) ==
    [supported |-> supported, visible |-> TRUE, current |-> "null",
     pending |-> 0, orphaned |-> 0]

\* requestWakeLock up to its await: the request is issued
RequestWakeLock(w) ==
    IF w.supported THEN [w EXCEPT !.pending = @ + 1] ELSE w

\* releaseWakeLock: release() on the referenced sentinel only
ReleaseWakeLock(w) ==
    IF w.current # "null" THEN [w EXCEPT !.current = "null"] ELSE w

(***************************************************************************)
(* Initial state: the first render of App and its effects.                 *)
(***************************************************************************)
InitSession ==
    /\ config = InitialConfig
    /\ status = IDLE
    /\ startTime = Null
    /\ elapsedTime = 0
    /\ reminders = <<>>
    /\ intention = ""
    /\ sessionQuote = EmptyQuote
    /\ loadingIntention = GreetingEffect(NotRendered, status)
    /\ isUpdatingQuote = FALSE
    /\ intervalLive = FALSE
    /\ fetches = GreetingFetches(EmptyBag, NotRendered, status)
    /\ sessionNo = 0
    /\ clockRead = Null
    /\ clockHigh = Null
    /\ fired = NothingFired
    /\ emitted = <<>>
    /\ call = NoCall

Init ==
    /\ InitSession
    /\ wakeLock = WakeLockOf(FALSE)

(***************************************************************************)
(* The Timer Tick effect: after a render that changed status, startTime or *)
(* config.durationMinutes the cleanup clears the interval and the effect   *)
(* schedules a new one when the session is running.  The clearInterval     *)
(* calls of handleStop and of the finishing poll clear the same interval.  *)
(***************************************************************************)
\* mutant of TimerTickEffect: the status not tested
TimerTickEffectAnyStatus(st, start) == start # Null /\ start # 0

TimerTickEffect(st, start) == st = RUNNING /\ start # Null /\ start # 0

(***************************************************************************)
(* handleStart: the start button, rendered in the IDLE view only.          *)
(***************************************************************************)
\* Date.now() at the click: the origin of the model's clock (only differences
\* of clock readings are used)
StartInstants == {1}

\* mutant of HandleStart: the start control offered in every view
HandleStartAnyPhase(t, pts) ==
    /\ sessionNo < MaxSessions
    /\ SessionFetches(fetches) < MaxInFlight
    /\ wakeLock.pending < MaxWakePending
    /\ sessionNo' = sessionNo + 1
    /\ wakeLock' = RequestWakeLock(wakeLock)
    /\ sessionQuote' = Quote("literal", sessionNo')
    /\ fetches' = fetches (+) SetToBag({Fetch("start", sessionNo')})
    /\ reminders' = pts
    /\ startTime' = t
    /\ clockRead' = t
    /\ clockHigh' = t
    /\ elapsedTime' = 0
    /\ status' = RUNNING
    /\ intervalLive' = TRUE
    /\ fired' = NothingFired
    /\ emitted' = << <<"unlockAudio", 0>>, <<"requestWakeLock", 0>>, <<"fetch", 0>> >>
    /\ UNCHANGED <<config, intention, loadingIntention, isUpdatingQuote, call>>

HandleStart(t, pts) ==
    /\ status = IDLE
    /\ sessionNo < MaxSessions
    /\ SessionFetches(fetches) < MaxInFlight
    /\ wakeLock.pending < MaxWakePending
    /\ sessionNo' = sessionNo + 1
    /\ wakeLock' = RequestWakeLock(wakeLock)
    /\ sessionQuote' = Quote("literal", sessionNo')
    /\ fetches' = fetches (+) SetToBag({Fetch("start", sessionNo')})
    /\ reminders' = pts
    /\ startTime' = t
    /\ clockRead' = t
    /\ clockHigh' = t
    /\ elapsedTime' = 0
    /\ status' = RUNNING
    /\ intervalLive' = TimerTickEffect(status', startTime')
    /\ fired' = NothingFired
    /\ emitted' = << <<"unlockAudio", 0>>, <<"requestWakeLock", 0>>, <<"fetch", 0>> >>
    /\ UNCHANGED <<config, intention, loadingIntention, isUpdatingQuote, call>>

\* mutant of SessionSchedules: the duration passed in seconds
SessionSchedulesInSeconds(durationMs, count, isRandom) ==
    GenerateReminders(durationMs \div 1000, count, isRandom, "low")
    \cup GenerateReminders(durationMs \div 1000, count, isRandom, "high")

\* the schedules a session is explored with: in random mode every draw at its
\* lowest outcome, or every draw at its highest
SessionSchedules(durationMs, count, isRandom) ==
    GenerateReminders(durationMs, count, isRandom, "low")
    \cup GenerateReminders(durationMs, count, isRandom, "high")

ClickStart ==
    \E t \in StartInstants :
        \E pts \in SessionSchedules(TotalDuration(config), config.reminderCount,
                                    config.isRandom) :
            HandleStart(t, pts)

(***************************************************************************)
(* handleStop: the stop button of the RUNNING view and the reset button of *)
(* the FINISHED view.                                                      *)
(***************************************************************************)
\* mutant of HandleStop: setElapsedTime(0) and setReminders([]) left out
HandleStopKeepsSession ==
    /\ status' = IDLE
    /\ startTime' = Null
    /\ sessionQuote' = [text |-> "", from |-> 0]
    /\ intervalLive' = FALSE
    /\ loadingIntention' = (GreetingEffect(status, status') \/ loadingIntention)
    /\ fetches' = GreetingFetches(fetches, status, status')
    /\ clockRead' = Null
    /\ clockHigh' = Null
    /\ fired' = NothingFired
    /\ emitted' = << <<"releaseWakeLock", 0>> >>
    /\ wakeLock' = ReleaseWakeLock(wakeLock)
    /\ UNCHANGED <<config, elapsedTime, reminders, intention, isUpdatingQuote,
                   sessionNo, call>>

HandleStop ==
    /\ status' = IDLE
    /\ startTime' = Null
    /\ elapsedTime' = 0
    /\ reminders' = <<>>
    /\ sessionQuote' = EmptyQuote
    /\ intervalLive' = TimerTickEffect(status', startTime')
    /\ loadingIntention' = (GreetingEffect(status, status') \/ loadingIntention)
    /\ fetches' = GreetingFetches(fetches, status, status')
    /\ clockRead' = Null
    /\ clockHigh' = Null
    /\ fired' = NothingFired
    /\ emitted' = << <<"releaseWakeLock", 0>> >>
    /\ wakeLock' = ReleaseWakeLock(wakeLock)
    /\ UNCHANGED <<config, intention, isUpdatingQuote, sessionNo, call>>

ClickStop ==
    /\ status \in {RUNNING, FINISHED}
    /\ HandleStop

(***************************************************************************)
(* The interval callback (one poll).                                       *)
(***************************************************************************)
\* mutant of Due: the boundary excluded
DueStrict(r, elapsed) == ~r.triggered /\ elapsed > r.timeMs

\* the reminders the updater of setReminders marks in this poll
Due(r, elapsed) == ~r.triggered /\ elapsed >= r.timeMs

\* mutant of UpdatedReminders: the flag recomputed from the elapsed time
UpdatedRecomputed(prev, elapsed) ==
    [i \in 1 .. Len(prev) |-> ReminderPoint(prev[i].timeMs, elapsed >= prev[i].timeMs)]

UpdatedReminders(prev, elapsed) ==
    [i \in 1 .. Len(prev) |->
        IF Due(prev[i], elapsed) THEN ReminderPoint(prev[i].timeMs, TRUE) ELSE prev[i]]

\* mutant of ReminderEffects: every point that is due fires, triggered or not
RECURSIVE ReminderEffectsRefire(_, _)
ReminderEffectsRefire(prev, elapsed) ==
    IF prev = <<>> THEN <<>>
    ELSE LET rest == ReminderEffectsRefire(Tail(prev), elapsed)
         IN  IF elapsed >= Head(prev).timeMs
             THEN << <<"gentleChime", Head(prev).timeMs>>,
                     <<"fetch", Head(prev).timeMs>> >> \o rest
             ELSE rest

\* playGentleChime() and getMindfulIntention() per marked reminder, in the
\* order of forEach
RECURSIVE ReminderEffects(_, _)
ReminderEffects(prev, elapsed) ==
    IF prev = <<>> THEN <<>>
    ELSE LET rest == ReminderEffects(Tail(prev), elapsed)
         IN  IF Due(Head(prev), elapsed)
             THEN << <<"gentleChime", Head(prev).timeMs>>,
                     <<"fetch", Head(prev).timeMs>> >> \o rest
             ELSE rest

DueCount(prev, elapsed) == Cardinality({i \in 1 .. Len(prev) : Due(prev[i], elapsed)})

RECURSIVE AddFetches(_, _, _)
AddFetches(bag, f, n) ==
    IF n = 0 THEN bag ELSE AddFetches(bag (+) SetToBag({f}), f, n - 1)

IsGentleChime(x) == x[1] = "gentleChime"
IsReminderFetch(x) == x[1] = "fetch"

\* mutant of Elapsed: the elapsed time accumulated poll by poll
ElapsedAccumulated(now, start) == elapsedTime + PollIntervalMs

\* elapsed = now - startTime
Elapsed(now, start) == now - start

\* mutant of IsFinished: the duration taken in the wrong unit
IsFinishedWrongUnit(elapsed, totalDuration) == elapsed >= totalDuration * 1000

\* mutant of IsFinished: finishes one millisecond early
IsFinishedEarly(elapsed, totalDuration) == elapsed + 1 >= totalDuration

IsFinished(elapsed, totalDuration) == elapsed >= totalDuration

Poll(now) ==
    LET elapsed       == Elapsed(now, startTime)
        totalDuration == TotalDuration(config)
        due           == DueCount(reminders, elapsed)
    IN  /\ intervalLive
        /\ clockRead' = now
        /\ clockHigh' = IF now > clockHigh THEN now ELSE clockHigh
        /\ IF IsFinished(elapsed, totalDuration)
           THEN /\ status' = FINISHED
                /\ elapsedTime' = totalDuration
                /\ emitted' = << <<"finishedChime", 0>>, <<"releaseWakeLock", 0>> >>
                /\ intervalLive' = TimerTickEffect(status', startTime)
                /\ fired' = [fired EXCEPT !.finished = @ + 1]
                /\ wakeLock' = ReleaseWakeLock(wakeLock)
                /\ UNCHANGED <<reminders, isUpdatingQuote, fetches>>
           ELSE /\ SessionFetches(fetches) + due <= MaxInFlight
                /\ elapsedTime' = elapsed
                /\ reminders' = UpdatedReminders(reminders, elapsed)
                /\ emitted' = ReminderEffects(reminders, elapsed)
                /\ fired' = [fired EXCEPT
                                !.gentle = @ + Len(SelectSeq(emitted', IsGentleChime)),
                                !.fetch  = @ + Len(SelectSeq(emitted', IsReminderFetch))]
                /\ isUpdatingQuote' = IF due > 0 THEN TRUE ELSE isUpdatingQuote
                /\ fetches' = AddFetches(fetches, Fetch("reminder", sessionNo), due)
                /\ UNCHANGED <<status, intervalLive, wakeLock>>
        /\ UNCHANGED <<config, startTime, intention, sessionQuote, loadingIntention,
                       sessionNo, call>>

\* the clock readings explored: one per region that the comparisons of the
\* callback distinguish (before the start instant, each reminder instant,
\* just before, at and after the end of the session)
PollOffsets ==
    {-1, 0}
    \cup {reminders[i].timeMs : i \in 1 .. Len(reminders)}
    \cup {TotalDuration(config) - 1, TotalDuration(config),
          TotalDuration(config) + PollIntervalMs}

Tick == \E e \in PollOffsets : Poll(startTime + e)

(***************************************************************************)
(* Resolution of a getMindfulIntention() promise: the .then callbacks.     *)
(***************************************************************************)
FetchResolve(f, text) ==
    /\ BagIn(f, fetches)
    /\ fetches' = fetches (-) SetToBag({f})
    /\ IF f.kind = "greeting"
       THEN /\ intention' = text
            /\ loadingIntention' = FALSE
            /\ UNCHANGED <<sessionQuote, isUpdatingQuote>>
       ELSE /\ sessionQuote' = Quote(text, f.session)
            /\ isUpdatingQuote' = IF f.kind = "reminder" THEN FALSE ELSE isUpdatingQuote
            /\ UNCHANGED <<intention, loadingIntention>>
    /\ emitted' = <<>>
    /\ UNCHANGED <<config, status, startTime, elapsedTime, reminders, intervalLive,
                   sessionNo, clockRead, clockHigh, fired, call, wakeLock>>

\* a resolution when the remote service answers every request
Resolve == \E f \in BagToSet(fetches), text \in ServedOutcomes : FetchResolve(f, text)

\* a resolution when every request to the remote service fails
ResolveFailed ==
    \E f \in BagToSet(fetches), text \in FailedOutcomes : FetchResolve(f, text)

(***************************************************************************)
(* Configuration inputs of the IDLE view.                                  *)
(***************************************************************************)
\* mutant of SetConfig: the configuration inputs offered in every view
SetConfigAnyPhase(cfg) ==
    /\ cfg.durationMinutes = config.durationMinutes
         \/ cfg.durationMinutes <= MaxDurationMinutes
    /\ cfg.reminderCount = config.reminderCount
         \/ cfg.reminderCount <= MaxReminderCount
    /\ config' = cfg
    /\ emitted' = <<>>
    /\ UNCHANGED <<status, startTime, elapsedTime, reminders, intention,
                   sessionQuote, loadingIntention, isUpdatingQuote, intervalLive,
                   fetches, sessionNo, clockRead, clockHigh, fired, call,
                   wakeLock>>

SetConfig(cfg) ==
    /\ status = IDLE
    /\ cfg.durationMinutes = config.durationMinutes
         \/ cfg.durationMinutes <= MaxDurationMinutes
    /\ cfg.reminderCount = config.reminderCount
         \/ cfg.reminderCount <= MaxReminderCount
    /\ config' = cfg
    /\ emitted' = <<>>
    /\ UNCHANGED <<status, startTime, elapsedTime, reminders, intention,
                   sessionQuote, loadingIntention, isUpdatingQuote, intervalLive,
                   fetches, sessionNo, clockRead, clockHigh, fired, call,
                   wakeLock>>

SelectDuration ==
    \E d \in PRESET_DURATIONS : SetConfig([config EXCEPT !.durationMinutes = d])

SlideDuration ==
    \E d \in 1 .. 120 : SetConfig([config EXCEPT !.durationMinutes = d])

\* mutant of SafeVal: Math.max(1, val) left out
SafeValUnclamped(isNaN, val) == IF isNaN THEN 1 ELSE val

\* setReminderCount(val); isNaN is the outcome of isNaN(val)
SafeVal(isNaN, val) == IF isNaN THEN 1 ELSE IF val >= 1 THEN val ELSE 1

SetReminderCount(isNaN, val) ==
    SetConfig([config EXCEPT !.reminderCount = SafeVal(isNaN, val)])

SelectCount == \E num \in PRESET_COUNTS : SetReminderCount(FALSE, num)

StepMinus == SetReminderCount(FALSE, config.reminderCount - 1)

StepPlus == SetReminderCount(FALSE, config.reminderCount + 1)

\* parseInt(e.target.value) of the number field: an integer, or NaN
TypeCount ==
    \/ \E val \in -1 .. MaxReminderCount : SetReminderCount(FALSE, val)
    \/ SetReminderCount(TRUE, 0)

ToggleRandom == SetConfig([config EXCEPT !.isRandom = ~config.isRandom])

Next ==
    \/ ClickStart
    \/ ClickStop
    \/ Tick
    \/ Resolve
    \/ SelectDuration
    \/ SlideDuration
    \/ SelectCount
    \/ StepMinus
    \/ StepPlus
    \/ TypeCount
    \/ ToggleRandom

Spec == Init /\ [][Next]_vars

(***************************************************************************)
(* handleStop as an operation of the session clock that can be called in   *)
(* any phase: the App and, besides its two buttons, a call while no        *)
(* session exists.                                                         *)
(***************************************************************************)
StopWhileIdle ==
    /\ status = IDLE
    /\ HandleStop

NextStop ==
    \/ Next
    \/ StopWhileIdle

SpecStop == Init /\ [][NextStop]_vars

(***************************************************************************)
(* The App when every request to the remote service fails.                 *)
(***************************************************************************)
NextDown ==
    \/ ClickStart
    \/ ClickStop
    \/ Tick
    \/ ResolveFailed
    \/ SelectDuration
    \/ SlideDuration
    \/ SelectCount
    \/ StepMinus
    \/ StepPlus
    \/ TypeCount
    \/ ToggleRandom

SpecDown == Init /\ [][NextDown]_vars

(***************************************************************************)
(* The App with a wall clock that keeps advancing and an interval that     *)
(* keeps firing while it is scheduled: a poll that reads the clock at or   *)
(* after the end of the session eventually runs.                           *)
(***************************************************************************)
LatePoll ==
    \E e \in PollOffsets : e >= TotalDuration(config) /\ Poll(startTime + e)

SpecLive == Init /\ [][Next]_vars /\ WF_vars(LatePoll)

(***************************************************************************)
(* The App on a platform with the Screen Wake Lock API.  A request settles *)
(* some time after it was issued: with a new sentinel, stored in           *)
(* wakeLockRef over whatever was there, or with a rejection, which the     *)
(* catch swallows; the platform grants no lock to a hidden page.  When the *)
(* page is hidden the platform releases every screen wake lock; the        *)
(* visibilitychange listener issues a request when the page is shown again *)
(* during a session.  The buttons and inputs need the page to be visible.  *)
(***************************************************************************)
WakeLockOutcomes(w) == IF w.visible THEN {"granted", "rejected"} ELSE {"rejected"}

WakeLockSettle(outcome) ==
    /\ wakeLock.pending > 0
    /\ outcome \in WakeLockOutcomes(wakeLock)
    /\ wakeLock' =
         IF outcome = "granted"
         THEN [wakeLock EXCEPT
                  !.pending = @ - 1,
                  !.current = "held",
                  !.orphaned = IF wakeLock.current = "held" THEN @ + 1 ELSE @]
         ELSE [wakeLock EXCEPT !.pending = @ - 1]
    /\ emitted' = <<>>
    /\ UNCHANGED <<config, status, startTime, elapsedTime, reminders, intention,
                   sessionQuote, loadingIntention, isUpdatingQuote, intervalLive,
                   fetches, sessionNo, clockRead, clockHigh, fired, call>>

WakeLockGranted == WakeLockSettle("granted")

WakeLockRejected == WakeLockSettle("rejected")

\* visibilitychange to hidden: handleVisibilityChange does nothing
PageHidden ==
    /\ wakeLock.visible
    /\ wakeLock' = [wakeLock EXCEPT
                       !.visible = FALSE,
                       !.current = IF @ = "held" THEN "released" ELSE @,
                       !.orphaned = 0]
    /\ emitted' = <<>>
    /\ UNCHANGED <<config, status, startTime, elapsedTime, reminders, intention,
                   sessionQuote, loadingIntention, isUpdatingQuote, intervalLive,
                   fetches, sessionNo, clockRead, clockHigh, fired, call>>

\* visibilitychange to visible: handleVisibilityChange
PageShown ==
    /\ ~wakeLock.visible
    /\ IF status = RUNNING
       THEN /\ wakeLock.pending < MaxWakePending
            /\ wakeLock' = RequestWakeLock([wakeLock EXCEPT !.visible = TRUE])
            /\ emitted' = << <<"requestWakeLock", 0>> >>
       ELSE /\ wakeLock' = [wakeLock EXCEPT !.visible = TRUE]
            /\ emitted' = <<>>
    /\ UNCHANGED <<config, status, startTime, elapsedTime, reminders, intention,
                   sessionQuote, loadingIntention, isUpdatingQuote, intervalLive,
                   fetches, sessionNo, clockRead, clockHigh, fired, call>>

UserInput ==
    /\ wakeLock.visible
    /\ \/ ClickStart
       \/ ClickStop
       \/ SelectDuration
       \/ SlideDuration
       \/ SelectCount
       \/ StepMinus
       \/ StepPlus
       \/ TypeCount
       \/ ToggleRandom

InitWake ==
    /\ InitSession
    /\ wakeLock = WakeLockOf(TRUE)

NextWake ==
    \/ UserInput
    \/ Tick
    \/ Resolve
    \/ WakeLockGranted
    \/ WakeLockRejected
    \/ PageHidden
    \/ PageShown

SpecWake == InitWake /\ [][NextWake]_vars

(***************************************************************************)
(* generateReminders explored alone: one call with arguments from bounded  *)
(* sets and every outcome of every draw.                                   *)
(***************************************************************************)
Generate ==
    \E durationMs \in 1 .. MaxGenDuration, count \in 1 .. MaxGenCount,
       isRandom \in BOOLEAN :
        \E pts \in GenerateReminders(durationMs, count, isRandom, "all") :
            /\ call' = [durationMs |-> durationMs, count |-> count,
                        isRandom |-> isRandom, points |-> pts, returned |-> TRUE]
            /\ UNCHANGED <<config, status, startTime, elapsedTime, reminders,
                           intention, sessionQuote, loadingIntention,
                           isUpdatingQuote, intervalLive, fetches, sessionNo,
                           clockRead, clockHigh, fired, emitted, wakeLock>>

NextGen == Generate

SpecGen == Init /\ [][NextGen]_vars

(***************************************************************************)
(* generateReminders called with any integer arguments, the ones its       *)
(* callers are expected to clamp away included.  The function has no throw *)
(* statement and no operation that throws: every call returns.             *)
(***************************************************************************)
GenerateAny ==
    \E durationMs \in -MaxGenDuration .. MaxGenDuration,
       count \in -1 .. MaxGenCount, isRandom \in BOOLEAN :
        \E pts \in GenerateReminders(durationMs, count, isRandom, "all") :
            /\ call' = [durationMs |-> durationMs, count |-> count,
                        isRandom |-> isRandom, points |-> pts, returned |-> TRUE]
            /\ UNCHANGED <<config, status, startTime, elapsedTime, reminders,
                           intention, sessionQuote, loadingIntention,
                           isUpdatingQuote, intervalLive, fetches, sessionNo,
                           clockRead, clockHigh, fired, emitted, wakeLock>>

NextGenAny == GenerateAny

SpecGenAny == Init /\ [][NextGenAny]_vars

(***************************************************************************)
(* Properties.                                                             *)
(***************************************************************************)
\* the timeMs of the gentle chimes (of the reminder fetches) of a handler
ChimeTimes(em) ==
    LET ch == SelectSeq(em, IsGentleChime) IN [i \in 1 .. Len(ch) |-> ch[i][2]]
FetchTimes(em) ==
    LET ft == SelectSeq(em, IsReminderFetch) IN [i \in 1 .. Len(ft) |-> ft[i][2]]

NonDecreasing(ts) == \A i \in 1 .. Len(ts) - 1 : ts[i] <= ts[i + 1]

\* the timeMs of the points of rems that are untriggered and at most e,
\* in schedule order
RECURSIVE PendingUpTo(_, _)
PendingUpTo(rems, e) ==
    IF rems = <<>> THEN <<>>
    ELSE IF ~Head(rems).triggered /\ Head(rems).timeMs <= e
         THEN <<Head(rems).timeMs>> \o PendingUpTo(Tail(rems), e)
         ELSE PendingUpTo(Tail(rems), e)

\* C1: a poll in RUNNING that observes elapsed < durationMs marks exactly the
\* untriggered points with timeMs <= elapsed (a point with timeMs = elapsed
\* included), leaves the others as they were, and plays one gentle chime and
\* issues one intention fetch per marked point, in ascending timeMs order.
C1_CatchUpInOnePoll ==
    [][ (Tick /\ status = RUNNING /\ clockRead' - startTime < TotalDuration(config))
        => /\ Len(reminders') = Len(reminders)
           /\ \A i \in 1 .. Len(reminders) :
                 /\ reminders'[i].timeMs = reminders[i].timeMs
                 /\ reminders'[i].triggered =
                       (reminders[i].triggered
                        \/ reminders[i].timeMs <= clockRead' - startTime)
           /\ ChimeTimes(emitted') = PendingUpTo(reminders, clockRead' - startTime)
           /\ FetchTimes(emitted') = PendingUpTo(reminders, clockRead' - startTime)
           /\ NonDecreasing(ChimeTimes(emitted'))
      ]_vars

\* a first poll of a session that fires three reminders at once, the last of
\* them exactly at its instant
C1_Witness ==
    /\ status = RUNNING
    /\ Len(ChimeTimes(emitted)) = 3
    /\ ChimeTimes(emitted)[1] < ChimeTimes(emitted)[3]
    /\ ChimeTimes(emitted)[3] = elapsedTime
    /\ \E i \in 1 .. Len(reminders) :
          reminders[i].timeMs = elapsedTime /\ reminders[i].triggered

\* C2: every FINISHED state has all schedule points triggered (the finishing
\* poll also fires the reminders that became due in the gap).
C2_FinishedAllTriggered ==
    status = FINISHED => \A i \in 1 .. Len(reminders) : reminders[i].triggered

\* C3: while a schedule is installed a triggered flag never goes from true to
\* false, and goes from false to true only in a poll whose elapsed time is
\* at least the point's timeMs.
C3_TriggeredMonotone ==
    [][ (reminders # <<>> /\ reminders' # <<>>)
        => /\ Len(reminders') = Len(reminders)
           /\ \A i \in 1 .. Len(reminders) :
                 /\ reminders[i].triggered => reminders'[i].triggered
                 /\ (~reminders[i].triggered /\ reminders'[i].triggered)
                       => /\ Tick
                          /\ clockRead' - startTime >= reminders[i].timeMs
      ]_vars

\* a triggered point stays triggered after the clock was read earlier than
\* its instant
C3_Witness ==
    /\ status = RUNNING
    /\ \E i \in 1 .. Len(reminders) :
          reminders[i].triggered /\ elapsedTime < reminders[i].timeMs

\* C4: the phase becomes FINISHED only in a poll that observes
\* now - startTime >= durationMs, and in every FINISHED state elapsedTime is
\* durationMs exactly.
C4_FinishedAtDuration ==
    /\ [](status = FINISHED
            => /\ elapsedTime = TotalDuration(config)
               /\ clockRead - startTime >= TotalDuration(config))
    /\ [][ (status # FINISHED /\ status' = FINISHED)
           => /\ Tick
              /\ status = RUNNING
              /\ clockRead' - startTime >= TotalDuration(config) ]_vars

\* finished by a poll that overshot the end of the session
C4_Witness ==
    /\ status = FINISHED
    /\ clockRead - startTime > TotalDuration(config)
    /\ elapsedTime = TotalDuration(config)

\* the points a generateReminders call returned, as their timeMs
CallTimes == [i \in 1 .. Len(call.points) |-> call.points[i].timeMs]

IsEvenCall == call.count >= 1 /\ ~call.isRandom
IsRandomCall == call.count >= 1 /\ call.isRandom

\* C5 as stated: even mode returns count points strictly between 0 and
\* durationMs, point i exactly at i * durationMs / (count + 1).
C5_EvenlySpacedExactly ==
    IsEvenCall
    => /\ Len(CallTimes) = call.count
       /\ \A i \in 1 .. Len(CallTimes) :
             /\ 0 < CallTimes[i]
             /\ CallTimes[i] < call.durationMs
             /\ (call.count + 1) * CallTimes[i] = i * call.durationMs

\* the gap after point i (point 0 is the start, point count + 1 the end)
EvenGap(i) ==
    (IF i = call.count THEN call.durationMs ELSE CallTimes[i + 1])
    - (IF i = 0 THEN 0 ELSE CallTimes[i])

\* C5 amended: even mode returns count integer points in [0, durationMs),
\* point i at most 1 ms below i * durationMs / (count + 1) and never above
\* it, so every gap (boundaries included) is within 1 ms of
\* durationMs / (count + 1); all points are positive when
\* durationMs >= 2 * (count + 1).
C5_EvenlySpacedWithinOneMs ==
    IsEvenCall
    => /\ Len(CallTimes) = call.count
       /\ \A i \in 1 .. Len(CallTimes) :
             /\ 0 <= CallTimes[i]
             /\ CallTimes[i] < call.durationMs
             /\ (call.count + 1) * CallTimes[i] <= i * call.durationMs
             /\ i * call.durationMs <= (call.count + 1) * (CallTimes[i] + 1)
             /\ call.durationMs >= 2 * (call.count + 1) => CallTimes[i] > 0
       /\ \A i \in 0 .. Len(CallTimes) :
             /\ (call.count + 1) * (EvenGap(i) - 1) <= call.durationMs
             /\ call.durationMs <= (call.count + 1) * (EvenGap(i) + 1)

\* an even schedule whose gaps cannot all be equal
C5_Witness ==
    /\ IsEvenCall
    /\ call.count >= 2
    /\ call.durationMs % (call.count + 1) # 0
    /\ call.durationMs >= 2 * (call.count + 1)
    /\ \E i \in 0 .. call.count - 1 : EvenGap(i) # EvenGap(i + 1)

\* C6 as stated: random mode returns one point per bucket, each inside the
\* inner 80% of its bucket, sorted ascending.  Bucket b (0-based) has inner
\* bounds (10b + 1) * durationMs / (10 * count) and
\* (10b + 9) * durationMs / (10 * count).
C6_InsideInnerEighty ==
    IsRandomCall
    => /\ Len(CallTimes) = call.count
       /\ NonDecreasing(CallTimes)
       /\ \A i \in 1 .. Len(CallTimes) :
             /\ (10 * (i - 1) + 1) * call.durationMs <= 10 * call.count * CallTimes[i]
             /\ 10 * call.count * CallTimes[i] <= (10 * (i - 1) + 9) * call.durationMs

\* C6 amended: random mode returns count integer points sorted ascending,
\* point i at most 1 ms below the inner 80% of bucket i and not above it.
C6_WithinOneMsOfInnerEighty ==
    IsRandomCall
    => /\ Len(CallTimes) = call.count
       /\ NonDecreasing(CallTimes)
       /\ \A i \in 1 .. Len(CallTimes) :
             /\ CallTimes[i] >= 0
             /\ (10 * (i - 1) + 1) * call.durationMs
                   <= 10 * call.count * (CallTimes[i] + 1)
             /\ 10 * call.count * CallTimes[i] <= (10 * (i - 1) + 9) * call.durationMs

\* a random schedule with a point below the inner 80% of its bucket
C6_Witness ==
    /\ IsRandomCall
    /\ call.count >= 2
    /\ \E i \in 1 .. Len(CallTimes) :
          10 * call.count * CallTimes[i] < (10 * (i - 1) + 1) * call.durationMs

\* C7: the schedule generateReminders returns (the one handleStart installs)
\* has exactly count points, with timeMs in [0, durationMs) and strictly
\* ascending, in both modes.
C7_StrictlyAscendingSchedule ==
    call.count >= 1
    => /\ Len(CallTimes) = call.count
       /\ \A i \in 1 .. Len(CallTimes) :
             0 <= CallTimes[i] /\ CallTimes[i] < call.durationMs
       /\ \A i \in 1 .. Len(CallTimes) - 1 : CallTimes[i] < CallTimes[i + 1]

C9_NoStaleQuote ==
    (status = RUNNING /\ sessionQuote.text \in FetchOutcomes)
    => sessionQuote.from = sessionNo

IsFinishedChime(x) == x[1] = "finishedChime"

\* C10: in IDLE and FINISHED no interval is scheduled, and a step taken
\* there other than a click on start or stop changes neither elapsedTime,
\* the schedule nor the phase, and plays no chime.
C10_NoPollOutsideRunning ==
    /\ [](status \in {IDLE, FINISHED} => ~intervalLive)
    /\ [][ Tick => status = RUNNING ]_vars
    /\ [][ (status \in {IDLE, FINISHED} /\ ~ClickStart /\ ~ClickStop)
           => /\ elapsedTime' = elapsedTime
              /\ reminders' = reminders
              /\ status' = status
              /\ SelectSeq(emitted', IsGentleChime) = <<>>
              /\ SelectSeq(emitted', IsFinishedChime) = <<>> ]_vars

\* a session stopped after one of its reminders had fired
C10_Witness ==
    /\ status = IDLE
    /\ sessionNo >= 1
    /\ ~intervalLive
    /\ BagIn(Fetch("reminder", sessionNo), fetches)

\* C11: the phase is one of IDLE, RUNNING, FINISHED and changes only from
\* IDLE to RUNNING by a start, from RUNNING to FINISHED by a poll, and from
\* RUNNING or FINISHED to IDLE by a stop; a start happens only in IDLE.
C11_StrictStateMachine ==
    /\ [](status \in SessionStatus)
    /\ [][ /\ status' # status
              => \/ status = IDLE /\ status' = RUNNING /\ ClickStart
                 \/ status = RUNNING /\ status' = FINISHED /\ Tick
                 \/ status \in {RUNNING, FINISHED} /\ status' = IDLE /\ ClickStop
           /\ sessionNo' # sessionNo => status = IDLE /\ status' = RUNNING
         ]_vars

\* a second session that ran to its end after the first one was left
C11_Witness ==
    /\ status = FINISHED
    /\ sessionNo = 2
    /\ fired.finished = 1

\* reminders is a result of generateReminders(durationMs, count, isRandom)
\* with no point triggered
IsFreshScheduleOf(rems, durationMs, count, isRandom) ==
    /\ Len(rems) = count
    /\ \A i \in 1 .. Len(rems) :
          /\ ~rems[i].triggered
          /\ IF isRandom
             THEN /\ RandomLow(durationMs, count, i - 1) <= rems[i].timeMs
                  /\ rems[i].timeMs <= RandomHigh(durationMs, count, i - 1)
             ELSE rems[i].timeMs \in EvenOutcomes(durationMs, count, i)

\* C12: a start from IDLE, in one step, records the clock reading as
\* startTime, sets elapsedTime to 0, installs a schedule that
\* generateReminders returns for config.durationMinutes * 60000,
\* config.reminderCount and config.isRandom with no point triggered, and
\* makes the phase RUNNING.
C12_StartInstallsSession ==
    [][ sessionNo' # sessionNo
        => /\ status = IDLE
           /\ status' = RUNNING
           /\ startTime' # Null
           /\ startTime' = clockRead'
           /\ elapsedTime' = 0
           /\ IsFreshScheduleOf(reminders', config.durationMinutes * 60000,
                                config.reminderCount, config.isRandom)
      ]_vars

\* a session of one minute with two evenly spaced reminders, just started
C12_Witness ==
    /\ status = RUNNING
    /\ SelectSeq(emitted, LAMBDA x : x[1] = "unlockAudio") # <<>>
    /\ config = [durationMinutes |-> 1, reminderCount |-> 2, isRandom |-> FALSE]
    /\ reminders = <<ReminderPoint(20000, FALSE), ReminderPoint(40000, FALSE)>>
    /\ elapsedTime = 0
    /\ startTime = clockRead

\* C13: a stop while the phase is already IDLE leaves the phase, startTime,
\* elapsedTime, the schedule and the session intention unchanged and has no
\* side effect other than the release of the wake lock.
C13_StopInIdleChangesNothing ==
    [][ StopWhileIdle
        => /\ status' = status
           /\ startTime' = startTime
           /\ elapsedTime' = elapsedTime
           /\ reminders' = reminders
           /\ sessionQuote' = sessionQuote
           /\ fetches' = fetches
           /\ emitted' = << <<"releaseWakeLock", 0>> >>
      ]_vars

\* text is a member of the fallback list of getMindfulIntention
IsFallback(text) == text = "fallback"

\* the intention strings on display: the greeting of the IDLE view once it
\* is loaded, the session intention of the RUNNING view
GreetingDisplayed == status = IDLE /\ ~loadingIntention
SessionQuoteDisplayed == status = RUNNING

C15_ElapsedWithinSession ==
    0 <= elapsedTime /\ elapsedTime <= TotalDuration(config)

\* the values the number field can hand to setReminderCount in the model
TypedValues == -1 .. MaxReminderCount + 1

\* C16: after any sequence of configuration inputs durationMinutes is in
\* 1 .. 120 and reminderCount is at least 1, in IDLE and in every session
\* started; setReminderCount replaces a value below 1 by 1, a non-number by 1,
\* and keeps every other value; the reminder count changes in IDLE only.
C16_ConfigAlwaysValid ==
    /\ [](/\ config.durationMinutes \in 1 .. 120
          /\ config.reminderCount >= 1
          /\ status # IDLE => Len(reminders) >= 1)
    /\ [](\A val \in TypedValues :
             /\ SafeVal(FALSE, val) = (IF val < 1 THEN 1 ELSE val)
             /\ SafeVal(TRUE, val) = 1)
    /\ [][ config'.reminderCount # config.reminderCount
           => /\ status = IDLE
              /\ config'.reminderCount >= 1
              /\ \/ config'.reminderCount \in PRESET_COUNTS
                 \/ config'.reminderCount \in TypedValues
                 \/ config'.reminderCount = config.reminderCount + 1
         ]_vars

\* a session started with both settings at their lowest value, the count
\* brought there from the initial 5
C16_Witness ==
    /\ status = RUNNING
    /\ config.durationMinutes = 1
    /\ config.reminderCount = 1
    /\ Len(reminders) = 1

\* C17: config does not change in a step that starts, polls or stops a
\* session, nor in any step taken in RUNNING or FINISHED, so in a session
\* the schedule has config.reminderCount points, all below the durationMs
\* the polls compare with.
C17_ConfigFixedInSession ==
    /\ [][ (status # IDLE \/ status' # IDLE) => config' = config ]_vars
    /\ [][ (ClickStart \/ Tick \/ ClickStop) => config' = config ]_vars
    /\ [](status \in {RUNNING, FINISHED}
            => /\ Len(reminders) = config.reminderCount
               /\ \A i \in 1 .. Len(reminders) :
                     reminders[i].timeMs < TotalDuration(config))

\* a session with a configuration other than the initial one, finished after
\* a reminder fired
C17_Witness ==
    /\ status = FINISHED
    /\ config = [durationMinutes |-> 1, reminderCount |-> 2, isRandom |-> TRUE]
    /\ fired.gentle = 2

\* the points of rems with timeMs at most e, and the triggered ones
PointsUpTo(rems, e) == {i \in 1 .. Len(rems) : rems[i].timeMs <= e}
TriggeredPoints(rems) == {i \in 1 .. Len(rems) : rems[i].triggered}

\* C18: after a poll that reads a clock value t not below any earlier reading
\* of the session, with t - startTime < durationMs, elapsedTime is
\* t - startTime, the triggered points are exactly those with
\* timeMs <= t - startTime, and the gentle chimes and reminder fetches of the
\* session so far are as many as those points, whatever polls ran before.
C18_PollHistoryIndependence ==
    [][ (Tick /\ clockRead' >= clockHigh
              /\ clockRead' - startTime < TotalDuration(config))
        => /\ elapsedTime' = clockRead' - startTime
           /\ TriggeredPoints(reminders') = PointsUpTo(reminders', clockRead' - startTime)
           /\ fired'.gentle = Cardinality(PointsUpTo(reminders', clockRead' - startTime))
           /\ fired'.fetch = Cardinality(PointsUpTo(reminders', clockRead' - startTime))
      ]_vars

\* a poll that fired the second reminder after an earlier poll had fired the
\* first one
C18_Witness ==
    /\ status = RUNNING
    /\ clockRead = clockHigh
    /\ fired.gentle = 2
    /\ Len(ChimeTimes(emitted)) = 1
    /\ Cardinality(TriggeredPoints(reminders)) = 2

\* the points that a step marks
NewlyTriggered ==
    {i \in 1 .. Len(reminders') :
        reminders'[i].triggered /\ ~(i <= Len(reminders) /\ reminders[i].triggered)}

\* C19: in every state the gentle chimes played and the reminder fetches
\* issued in the session are as many as the triggered points; a step plays
\* one gentle chime per point it marks, and a poll issues one fetch per point
\* it marks; the finished chime is played once in
\* a step that makes the phase FINISHED and in no other step.
C19_EachReminderOnce ==
    /\ [](/\ fired.gentle = Cardinality(TriggeredPoints(reminders))
          /\ fired.fetch = Cardinality(TriggeredPoints(reminders))
          /\ fired.finished = (IF status = FINISHED THEN 1 ELSE 0))
    /\ [][ /\ Len(SelectSeq(emitted', IsGentleChime)) = Cardinality(NewlyTriggered)
           /\ Tick => Len(SelectSeq(emitted', IsReminderFetch)) = Cardinality(NewlyTriggered)
           /\ Len(SelectSeq(emitted', IsFinishedChime))
                 = (IF status # FINISHED /\ status' = FINISHED THEN 1 ELSE 0)
         ]_vars

\* a session finished with some reminders fired one by one and the last one
\* never fired
C19_Witness ==
    /\ status = FINISHED
    /\ fired = [gentle |-> 1, fetch |-> 1, finished |-> 1]
    /\ Len(reminders) = 2
    /\ reminders[1].triggered
    /\ ~reminders[2].triggered

\* C20: a running session eventually is left; it is left for FINISHED by a
\* poll or for IDLE by a stop; in FINISHED no interval is scheduled and the
\* phase stays FINISHED until a stop.
C20_SessionEnds ==
    /\ (status = RUNNING) ~> (status # RUNNING)
    /\ [][ (status = RUNNING /\ status' # RUNNING)
           => \/ status' = FINISHED /\ Tick
              \/ status' = IDLE /\ ClickStop ]_vars
    /\ [](status = FINISHED => ~intervalLive /\ ~ENABLED Tick)
    /\ [][ status = FINISHED => (status' = FINISHED \/ ClickStop) ]_vars

\* a session finished by a poll that read the clock exactly at its end
C20_Witness ==
    /\ status = FINISHED
    /\ ~intervalLive
    /\ clockRead - startTime = TotalDuration(config)
    /\ emitted = << <<"finishedChime", 0>>, <<"releaseWakeLock", 0>> >>

\* the reminder fetches not yet resolved
ReminderFetchesInFlight ==
    {f \in BagToSet(fetches) : f.kind = "reminder"}

\* C23: isUpdatingQuote is true exactly when a fetch issued for a reminder
\* has not resolved yet.
C23_IndicatorTracksFetches ==
    isUpdatingQuote <=> (ReminderFetchesInFlight # {})

\* a call whose arguments the scheduler is not defined for
IsInvalidCall == call.count < 1 \/ call.durationMs <= 0

\* C22: a call of generateReminders with count < 1 or durationMs <= 0 signals
\* an error: it does not return, so no such call returns an empty schedule
\* or a schedule with a negative timeMs.
C22_InvalidInputFailsFast ==
    ~(call.returned /\ IsInvalidCall)

\* a screen wake lock the application acquired is still held
WakeLockUnreleased ==
    wakeLock.current = "held" \/ wakeLock.orphaned > 0

\* C21: in every state with phase IDLE or FINISHED and no wake lock request
\* still pending, no wake lock acquired by the application remains unreleased.
C21_KeepAwakeReleased ==
    (status \in {IDLE, FINISHED} /\ wakeLock.pending = 0) => ~WakeLockUnreleased

====
